---- MODULE Spec2Model ----
(***************************************************************************)
(* Model of the Canvas2D tile renderer (class Canvas extends Renderer).    *)
(* The renderer owns the tile cache, the cell cache and the animated-tile  *)
(* collection; render() and resize() are its operations, the Map, the      *)
(* Camera, the Tile class and the Renderer base class are collaborators.   *)
(* Lengths are integers; actualTileSize is kept in half pixels so that a   *)
(* zoomed tile size can be fractional and Math.ceil is not the identity.   *)
(***************************************************************************)
EXTENDS Integers, Sequences, FiniteSets, TLC

(* ---------------------------- TileFlip enum ---------------------------- *)
Horizontal == 0
Vertical == 1
Diagonal == 2

(* ------------------------------- bounds -------------------------------- *)
\* game.time is capped so that the clock has finitely many values.
MaxTime == 1
\* Number of getFlipped calls another subsystem makes on one tile.
MaxCalls == 2

(* --------------------- collaborators: Map, Camera ---------------------- *)
\* Renderer.tileSize, in pixels.
TileSize == 16
\* Map.width and Map.height, in tiles.
MapWidth == 4
MapHeight == 4
\* Camera: number of map rows in the viewport.
ViewRows == 2

\* Values the Camera's zoom can give Renderer.actualTileSize, in half pixels
\* (16px and 20.5px).
ActualTileSizes == {32, 41}

\* A plain visible tile is a number; a TransformedTile carries flip flags.
PlainTile(id) == [tileId |-> id, flipped |-> FALSE, v |-> FALSE, d |-> FALSE, h |-> FALSE]
TransformedTile(id, v, d, h) == [tileId |-> id, flipped |-> TRUE, v |-> v, d |-> d, h |-> h]

\* Map.data, row-major; map index i is MapData[i + 1].
MapData ==
    << PlainTile(1),  TransformedTile(1, FALSE, TRUE, FALSE),
       TransformedTile(2, FALSE, TRUE, TRUE),  PlainTile(4),
       PlainTile(5),  TransformedTile(1, FALSE, TRUE, FALSE),
       TransformedTile(5, FALSE, FALSE, TRUE),  PlainTile(3),
       PlainTile(-1), PlainTile(9),
       TransformedTile(2, TRUE, TRUE, TRUE),  PlainTile(8),
       PlainTile(5),  TransformedTile(3, TRUE, TRUE, FALSE),
       TransformedTile(1, TRUE, FALSE, TRUE), TransformedTile(3, TRUE, FALSE, FALSE) >>

MapIndices == 0 .. (MapWidth * MapHeight - 1)

\* Map.isFlipped(tile)
MapIsFlipped(tile) == tile.flipped
\* Map.isHighTile(tileId)
IsHighTile(tileId) == tileId \in {2, 4, 6}
\* Map.isLightTile(tileId)
IsLightTile(tileId) == tileId \in {3, 4, 5}
\* Map.isAnimatedTile(tileId)
IsAnimatedTile(tileId) == tileId \in {5}
\* Map.dynamicAnimatedTiles[index]
DynamicAnimatedTiles(index) == index \in {12}
\* Map.getTileAnimation(tileId): the frames' tile ids as stored (0-indexed).
GetTileAnimation(tileId) ==
    IF tileId = 5 THEN <<5, 8>> ELSE <<>>

\* The tilesets of the Map: width in pixels, first and last global tile id.
Tilesets ==
    << [name |-> "a", firstGid |-> 1, lastGid |-> 4, width |-> 32],
       [name |-> "b", firstGid |-> 5, lastGid |-> 8, width |-> 64] >>

NoTileset == [name |-> "none", firstGid |-> 0, lastGid |-> -1, width |-> 0]

\* Map.getTilesetFromId(tileId): the tileset owning the id, or none.
GetTilesetFromId(tileId) ==
    IF \E i \in 1 .. Len(Tilesets) :
          tileId >= Tilesets[i].firstGid /\ tileId <= Tilesets[i].lastGid
    THEN Tilesets[CHOOSE i \in 1 .. Len(Tilesets) :
          tileId >= Tilesets[i].firstGid /\ tileId <= Tilesets[i].lastGid]
    ELSE NoTileset

\* Camera.forEachVisibleTile: the visible map indices in row-major order,
\* for a viewport whose first row is `row`.
VisibleIndices(row) ==
    [k \in 1 .. (ViewRows * MapWidth) |-> row * MapWidth + (k - 1)]

\* The camera positions: the top and the bottom half of the map.
CameraRows == {0, MapHeight - ViewRows}

(* ------------------------ Renderer base helpers ------------------------ *)
\* Renderer.getX(index, width): column of a 1-based index.
GetX(index, width) ==
    IF index = 0 THEN 0
    ELSE IF index % width = 0 THEN width - 1 ELSE (index % width) - 1

\* Math.ceil of a length given in half pixels, in pixels.
Ceil2(halves) == (halves + 1) \div 2

\* Math.floor(a / b) for b > 0.
FloorDiv(a, b) == a \div b

Contexts == {"back", "fore", "overlay"}

\* Number of setCountdown calls made on the entity.
MaxCountdownCalls == 4
\* Largest count passed to setCountdown.
MaxCount == 3
\* Number of blink() calls made on the entity.
MaxBlinkCalls == 4
\* Number of external setSprite calls made on the entity.
MaxSpriteCalls == 2

(* ------------------------------- state --------------------------------- *)
VARIABLES
    tiles,           \* Canvas.tiles: tile id -> RendererTile
    cells,           \* Canvas.cells: map index -> RendererCell
    animatedTiles,   \* Canvas.animatedTiles: identifier -> Tile
    actualTileSize,  \* Renderer.actualTileSize (half pixels)
    stopRendering,   \* Renderer.stopRendering
    animateTiles,    \* Renderer.animateTiles
    hasOverlay,      \* game.overlays.hasOverlay()
    renderedFrame,   \* Renderer.hasRenderedFrame()
    camera,          \* first visible map row
    time,            \* game.time
    op,              \* the operation performed by the last step
    blits,           \* context.drawImage calls made by the last step
    ctxOps,          \* clear / save / restore / blit calls of the last step
    computed,        \* cache compute paths and aborts of the last step
    added,           \* animatedTiles as left by each addAnimatedTile of the last step
    flipTile,        \* the tile another subsystem passes to getFlipped
    flipResults      \* the lists its getFlipped calls returned

canvasVars == << tiles, cells, animatedTiles, actualTileSize, stopRendering, animateTiles,
                 hasOverlay, renderedFrame, camera, time, op, blits, ctxOps, computed,
                 added >>

flippedVars == << flipTile, flipResults >>

\* class Entity: the countdown above the entity.
VARIABLES
    counter,          \* Entity.counter
    counterInterval,  \* Entity.counterInterval: a timer id, or NoTimer
    countdownTimers,  \* ids of the scheduled intervals setCountdown created
    countdownCalls    \* number of setCountdown calls made

countdownVars == << counter, counterInterval, countdownTimers, countdownCalls >>

\* class Entity: blinking.
VARIABLES
    visible,          \* Entity.visible
    blinking,         \* Entity.blinking: a timer id, or NoTimer
    blinkTimers,      \* ids of the scheduled intervals blink() created
    blinkCalls,       \* number of blink() calls made
    stopped           \* stopBlinking() has returned and blink() was not called since

blinkVars == << visible, blinking, blinkTimers, blinkCalls, stopped >>

\* class Entity: the sprite and its secondary sprites.
VARIABLES
    spriteState,      \* sprite -> "idle", "loading" (Sprite.loading) or "loaded" (Sprite.loaded)
    sprite,           \* Entity.sprite
    normalSprite,     \* Entity.normalSprite
    hurtSprite,       \* Entity.hurtSprite: the sprite it was taken from
    silhouetteSprite, \* Entity.silhouetteSprite: the sprite it was taken from
    retries,          \* sprite -> number of pending `setTimeout(() => this.setSprite(sprite), 100)`
    onLoadCallback,   \* sprites whose onLoad callback is the one of this entity
    lastSet,          \* the sprite of the most recent external setSprite call
    requested,        \* sprites an external setSprite got unloaded, secondary sprites not applied since
    spriteCalls       \* number of external setSprite calls made

spriteVars == << spriteState, sprite, normalSprite, hurtSprite, silhouetteSprite,
                 retries, onLoadCallback, lastSet, requested, spriteCalls >>

entityVars == << countdownVars, blinkVars, spriteVars >>

vars == << canvasVars, flippedVars, entityVars >>

caches == << tiles, cells, animatedTiles >>

\* An empty JS object.
EmptyObject == [k \in {} |-> 0]

\* obj[key] = value on a JS object.
Put(obj, key, value) ==
    [k \in (DOMAIN obj) \cup {key} |-> IF k = key THEN value ELSE obj[k]]

\* The value of a property that is not there.
Undefined == [undefined |-> TRUE]

\* obj[key] read from a JS object.
Lookup(obj, key) == IF key \in DOMAIN obj THEN obj[key] ELSE Undefined

(* ----------------------- animated tile identifiers --------------------- *)
DigitChars == <<"0", "1", "2", "3", "4", "5", "6", "7", "8", "9">>

RECURSIVE Decimal(_)
Decimal(n) ==
    IF n < 10 THEN << DigitChars[n + 1] >>
    ELSE Decimal(n \div 10) \o << DigitChars[(n % 10) + 1] >>

\* String(n): the property key a number is converted to.
NumberKey(n) == IF n < 0 THEN <<"-">> \o Decimal(-n) ELSE Decimal(n)

\* The template literal `${tile}-${index}`.
TemplateKey(tile, index) == NumberKey(tile) \o <<"-">> \o NumberKey(index)

(* ------------------------------ class Tile ----------------------------- *)
\* new Tile(id, index, animationInfo, isFlipped, isHighTile)
NewTile(id, index, animationInfo, isFlipped, isHighTile) ==
    [ id |-> id, index |-> index, animationInfo |-> animationInfo,
      isFlipped |-> isFlipped, isHighTile |-> isHighTile,
      animationIndex |-> 0, lastAccessed |-> 0 ]

\* The animation stepper of a Tile: next frame of its animation.
TileUpdate(tile) ==
    LET next == (tile.animationIndex + 1) % Len(tile.animationInfo)
    IN  [tile EXCEPT !.animationIndex = next, !.id = tile.animationInfo[next + 1]]

(* ------------------------------ getFlipped ----------------------------- *)
\* A getFlipped that pushes the flags in the order of the TileFlip enum.
GetFlippedEnumOrder(tile) ==
    IF ~MapIsFlipped(tile) THEN <<>>
    ELSE (IF tile.h THEN <<Horizontal>> ELSE <<>>)
         \o (IF tile.v THEN <<Vertical>> ELSE <<>>)
         \o (IF tile.d THEN <<Diagonal>> ELSE <<>>)

GetFlipped(tile) ==
    IF ~MapIsFlipped(tile) THEN <<>>
    ELSE (IF tile.v THEN <<Vertical>> ELSE <<>>)
         \o (IF tile.d THEN <<Diagonal>> ELSE <<>>)
         \o (IF tile.h THEN <<Horizontal>> ELSE <<>>)

(* ------------------------------ drawImage ------------------------------ *)
\* A compensation that pushes Vertical whatever follows the Diagonal.
SyntheticFlipVertical(flips, index) == Vertical

\* The compensating flip a Diagonal at position index pushes.
SyntheticFlip(flips, index) ==
    IF index + 2 <= Len(flips) /\ flips[index + 2] = Horizontal
    THEN Horizontal ELSE Vertical

\* A loop that reads flips.length once, before it starts.
RECURSIVE FlipLoopTo(_, _, _, _, _, _, _, _)
FlipLoopTo(length, index, flips, dx, dy, tempX, cell, transforms) ==
    IF index >= length
    THEN [ flips |-> flips, dx |-> dx, dy |-> dy, iterations |-> index,
           transforms |-> transforms ]
    ELSE LET flip == flips[index + 1]
         IN  IF flip = Horizontal
             THEN FlipLoopTo(length, index + 1, flips, (-dx) - cell.width, dy, tempX,
                             cell, Append(transforms, "scale(-1,1)"))
             ELSE IF flip = Vertical
             THEN FlipLoopTo(length, index + 1, flips, dx, (-dy) - cell.height, tempX,
                             cell, Append(transforms, "scale(1,-1)"))
             ELSE FlipLoopTo(length, index + 1,
                             Append(flips, SyntheticFlip(flips, index)),
                             dy, -tempX, tempX, cell,
                             Append(transforms, "rotate+translate"))

FlipLoopFixedLength(index, flips, dx, dy, tempX, cell, transforms) ==
    FlipLoopTo(Len(flips), index, flips, dx, dy, tempX, cell, transforms)

\* The for loop over flips (index is 0-based as in the source); flips grows
\* while it is iterated.  transforms lists the context calls it makes.
RECURSIVE FlipLoop(_, _, _, _, _, _, _)
FlipLoop(index, flips, dx, dy, tempX, cell, transforms) ==
    IF index >= Len(flips)
    THEN [ flips |-> flips, dx |-> dx, dy |-> dy, iterations |-> index,
           transforms |-> transforms ]
    ELSE LET flip == flips[index + 1]
         IN  IF flip = Horizontal
             THEN FlipLoop(index + 1, flips, (-dx) - cell.width, dy, tempX, cell,
                           Append(transforms, "scale(-1,1)"))
             ELSE IF flip = Vertical
             THEN FlipLoop(index + 1, flips, dx, (-dy) - cell.height, tempX, cell,
                           Append(transforms, "scale(1,-1)"))
             ELSE IF flip = Diagonal
             THEN FlipLoop(index + 1, Append(flips, SyntheticFlip(flips, index)),
                           dy, -tempX, tempX, cell,
                           Append(transforms, "rotate+translate"))
             ELSE FlipLoop(index + 1, flips, dx, dy, tempX, cell, transforms)

\* `d || cell.d`: the destination coordinate handed to context.drawImage.
Destination(adjusted, cellCoordinate) ==
    IF adjusted # 0 THEN adjusted ELSE cellCoordinate

\* `context.save()` at the start of the transforms.
SaveOps(isFlipped, context) ==
    IF isFlipped THEN << <<"save", context>> >> ELSE <<>>

\* A drawImage that restores the context after every blit.
RestoreAlways(isFlipped, context) == << <<"restore", context>> >>

\* `if (isFlipped) context.restore();`
RestoreOps(isFlipped, context) ==
    IF isFlipped THEN << <<"restore", context>> >> ELSE <<>>

\* The pass has been ended by an exception.
Thrown(st) ==
    st.ctxOps # <<>> /\ st.ctxOps[Len(st.ctxOps)][1] = "throw"

\* Reading a property of an undefined tile or cell throws a TypeError: at
\* the destructuring of the cell when there are flips, else in the
\* arguments of context.drawImage.
DrawImage(st, context, image, tileId, index, tile, cell, flips, via) ==
    LET isFlipped == Len(flips) > 0
    IN  IF cell = Undefined
        THEN [st EXCEPT !.ctxOps = Append(@, <<"throw", context>>)]
        ELSE IF tile = Undefined
        THEN [st EXCEPT !.ctxOps = @ \o SaveOps(isFlipped, context)
                                     \o << <<"throw", context>> >>]
        ELSE
    LET loop == IF isFlipped
                THEN FlipLoop(0, flips, cell.dx, cell.dy, cell.dx, cell, <<>>)
                ELSE [ flips |-> flips, dx |-> 0, dy |-> 0, iterations |-> 0,
                       transforms |-> <<>> ]
        blit == [ context |-> context, image |-> image.name,
                  tileId |-> tileId, index |-> index,
                  tile |-> tile, cell |-> cell,
                  destX |-> Destination(loop.dx, cell.dx),
                  destY |-> Destination(loop.dy, cell.dy),
                  dx |-> loop.dx, dy |-> loop.dy,
                  flipsIn |-> flips, flipsOut |-> loop.flips,
                  iterations |-> loop.iterations, transforms |-> loop.transforms,
                  via |-> via ]
    IN  [st EXCEPT
           !.blits = Append(@, blit),
           !.ctxOps = @ \o SaveOps(isFlipped, context)
                        \o << <<"drawImage", context>> >>
                        \o RestoreOps(isFlipped, context)]

(* ------------------------------ drawTile ------------------------------- *)
\* The RendererTile computed for a tile id of a tileset.
TileGeometry(tileId, tileset) ==
    LET setWidth == tileset.width \div TileSize
        relativeTileId == tileId - tileset.firstGid
    IN  [ relativeTileId |-> relativeTileId, setWidth |-> setWidth,
          x |-> GetX(relativeTileId + 1, setWidth) * TileSize,
          y |-> FloorDiv(relativeTileId, setWidth) * TileSize,
          width |-> TileSize, height |-> TileSize ]

\* The RendererCell computed for a map index at a given actualTileSize.
CellGeometry(index, size) ==
    [ dx |-> Ceil2(GetX(index + 1, MapWidth) * size),
      dy |-> Ceil2(FloorDiv(index, MapWidth) * size),
      width |-> Ceil2(size), height |-> Ceil2(size) ]

\* A drawTile that recomputes the tile geometry on every call.
TileAlwaysMissing(tileCache, tileId) == TRUE

\* The condition under which drawTile computes this.tiles[tileId].
TileMissing(tileCache, tileId) == tileId \notin DOMAIN tileCache

\* A drawTile that writes the cell only for flipped tiles.
CellStaleFlippedOnly(cellCache, index, flips) == Len(flips) > 0

\* A drawTile that recomputes the cell on every call.
CellAlwaysStale(cellCache, index, flips) == TRUE

\* The condition under which drawTile writes this.cells[index].
CellStale(cellCache, index, flips) ==
    index \notin DOMAIN cellCache \/ Len(flips) > 0

\* A drawTile that populates the cell before its guards.
DrawTileCellFirst(st, context, tileId, index, flips, via) ==
    LET st0 == IF CellStale(st.cells, index, flips)
               THEN [st EXCEPT
                       !.cells = Put(@, index, CellGeometry(index, actualTileSize)),
                       !.computed = Append(@, <<"cell", index>>)]
               ELSE st
    IN  IF tileId < 0 THEN st0
        ELSE LET tileset == GetTilesetFromId(tileId)
             IN  IF tileset = NoTileset THEN st0
                 ELSE LET st1 == IF TileMissing(st0.tiles, tileId)
                                 THEN [st0 EXCEPT
                                         !.tiles = Put(@, tileId, TileGeometry(tileId, tileset)),
                                         !.computed = Append(@, <<"tile", tileId>>)]
                                 ELSE st0
                      IN  DrawImage(st1, context, tileset, tileId, index,
                                    Lookup(st1.tiles, tileId), Lookup(st1.cells, index),
                                    flips, via)

DrawTile(st, context, tileId, index, flips, via) ==
    IF tileId < 0 THEN st
    ELSE LET tileset == GetTilesetFromId(tileId)
         IN  IF tileset = NoTileset THEN st
             ELSE LET st1 == IF TileMissing(st.tiles, tileId)
                             THEN [st EXCEPT
                                     !.tiles = Put(@, tileId, TileGeometry(tileId, tileset)),
                                     !.computed = Append(@, <<"tile", tileId>>)]
                             ELSE st
                      st2 == IF CellStale(st1.cells, index, flips)
                             THEN [st1 EXCEPT
                                     !.cells = Put(@, index, CellGeometry(index, actualTileSize)),
                                     !.computed = Append(@, <<"cell", index>>)]
                             ELSE st1
                  IN  DrawImage(st2, context, tileset, tileId, index,
                                Lookup(st2.tiles, tileId), Lookup(st2.cells, index),
                                flips, via)

(* --------------------------- animated tiles ---------------------------- *)
\* An addAnimatedTile that does not synchronise the existing tiles.
ResetNothing(animated) == animated

ResetAnimatedTiles(animated) ==
    [k \in DOMAIN animated |-> [animated[k] EXCEPT !.animationIndex = 0]]

\* An addAnimatedTile that registers every tile under its tile id.
AddAnimatedTilePlainKey(st, tileId, index) ==
    LET tile == NewTile(tileId, index, GetTileAnimation(tileId), FALSE,
                        IsHighTile(tileId))
        after == ResetAnimatedTiles(Put(st.animatedTiles, NumberKey(tileId), tile))
    IN  [st EXCEPT !.animatedTiles = after, !.added = Append(@, after)]

AddAnimatedTile(st, tileId, index) ==
    LET identifier == IF index = -1 THEN NumberKey(tileId)
                                    ELSE TemplateKey(tileId, index)
        tile == NewTile(tileId, index, GetTileAnimation(tileId), FALSE,
                        IsHighTile(tileId))
        after == ResetAnimatedTiles(Put(st.animatedTiles, identifier, tile))
    IN  [st EXCEPT !.animatedTiles = after, !.added = Append(@, after)]

\* A draw path that also steps the animation when it stamps the tile.
TouchAndStep(animatedTile) ==
    [TileUpdate(animatedTile) EXCEPT !.lastAccessed = time]

\* A draw path that leaves the stamp alone.
TouchNothing(animatedTile) == animatedTile

\* `animatedTile.lastAccessed = this.game.time;`
Touch(animatedTile) == [animatedTile EXCEPT !.lastAccessed = time]

\* A de-duplication that skips every unflipped placement.
SkipUnflipped(flips, animatedTile) == Len(flips) = 0

\* "Prevent double draws when drawing flipped animated tiles."
SkipDoubleDraw(flips, animatedTile) ==
    Len(flips) = 0 /\ animatedTile.isFlipped

\* A draw path that creates the Animated Tile on every call.
AnimatedAlwaysMissing(animated, identifier) == TRUE

\* `!(identifier in this.animatedTiles)`
AnimatedMissing(animated, identifier) == identifier \notin DOMAIN animated

\* The frame the animated-tile draw path hands to drawTile.
FrameId(animatedTile) == animatedTile.id + 1

\* A draw path that sends animated tiles to the overlay when one is active.
AnimatedContextOverlay(animatedTile) ==
    IF hasOverlay THEN "overlay"
    ELSE IF animatedTile.isHighTile THEN "fore" ELSE "back"

\* "Extract the context from the animated tile."
AnimatedContext(animatedTile) ==
    IF animatedTile.isHighTile THEN "fore" ELSE "back"

DrawAnimatedTile(st, tile, index, flips) ==
    IF ~animateTiles THEN st
    ELSE LET isDynamicallyAnimated == DynamicAnimatedTiles(index)
             identifier == IF isDynamicallyAnimated THEN TemplateKey(tile, index)
                                                    ELSE NumberKey(tile)
             st1 == IF AnimatedMissing(st.animatedTiles, identifier)
                    THEN AddAnimatedTile(st, tile,
                                         IF isDynamicallyAnimated THEN index ELSE -1)
                    ELSE st
         IN  IF Lookup(st1.animatedTiles, identifier) = Undefined
             THEN [st1 EXCEPT !.computed = Append(@, <<"abort", index>>)]
             ELSE LET st2 == [st1 EXCEPT !.animatedTiles[identifier] = Touch(@)]
                      animatedTile == st2.animatedTiles[identifier]
                  IN  IF SkipDoubleDraw(flips, animatedTile) THEN st2
                      ELSE DrawTile(st2, AnimatedContext(animatedTile),
                                    FrameId(animatedTile), index, flips, "animated")

(* -------------------------------- draw --------------------------------- *)
\* A routing that ignores the overlay.
TileContextNoOverlay(tileId) == IF IsHighTile(tileId) THEN "fore" ELSE "back"

\* The surface draw() picks for a tile id.
TileContext(tileId) ==
    LET context == IF IsHighTile(tileId) THEN "fore" ELSE "back"
    IN  IF hasOverlay
        THEN (IF IsLightTile(tileId) THEN "overlay" ELSE context)
        ELSE context

\* A callback whose flips array is shared by all tiles: getFlipped pushes
\* onto the array the previous drawImage left behind.
VisibleTileSharedFlips(st, tile, index) ==
    LET left == IF st.blits = <<>> THEN <<>> ELSE st.blits[Len(st.blits)].flipsOut
        flips == left \o GetFlipped(tile)
        tileId == tile.tileId
    IN  IF animateTiles /\ IsAnimatedTile(tileId)
        THEN DrawAnimatedTile(st, tileId, index, flips)
        ELSE DrawTile(st, TileContext(tileId), tileId, index, flips, "direct")

\* The callback draw() hands to forEachVisibleTile.
VisibleTile(st, tile, index) ==
    LET flips == GetFlipped(tile)
        tileId == tile.tileId
        animated == IsAnimatedTile(tileId)
        context == TileContext(tileId)
    IN  IF animateTiles /\ animated
        THEN DrawAnimatedTile(st, tileId, index, flips)
        ELSE DrawTile(st, context, tileId, index, flips, "direct")

RECURSIVE ForEachVisibleTile(_, _, _)
ForEachVisibleTile(st, indices, k) ==
    IF k > Len(indices) \/ Thrown(st) THEN st
    ELSE ForEachVisibleTile(VisibleTile(st, MapData[indices[k] + 1], indices[k]),
                            indices, k + 1)

DrawingContexts == <<"back", "fore">>

\* forEachDrawingContext(callback), as the context calls it makes.
ForEachDrawingContext(call) ==
    [i \in 1 .. Len(DrawingContexts) |-> <<call, DrawingContexts[i]>>]

\* The renderer state a draw() pass starts from.
PassStart ==
    [ tiles |-> tiles, cells |-> cells, animatedTiles |-> animatedTiles,
      blits |-> <<>>, ctxOps |-> <<>>, computed |-> <<>>, added |-> <<>> ]

\* draw() when the frame has not been rendered yet.
Draw ==
    LET st0 == [PassStart EXCEPT
                  !.ctxOps = ForEachDrawingContext("clear")
                             \o ForEachDrawingContext("save")
                             \o << <<"fillRect", "back">> >>
                             \o ForEachDrawingContext("setCameraView")]
        st1 == ForEachVisibleTile(st0, VisibleIndices(camera), 1)
    IN  IF Thrown(st1) THEN st1
        ELSE [st1 EXCEPT !.ctxOps = @ \o ForEachDrawingContext("restore")]

(* ------------------------ class Entity: state -------------------------- *)
\* The value of a timer field that holds no timer id: `undefined`. Timer ids
\* are positive, so 0 is falsy like undefined and names no timer.
NoTimer == 0

\* The Sprite objects of the sprites controller.
Sprites == {"A", "B"}

\* A sprite field that was never assigned.
NoSprite == "none"

\* Sprite.key: every Sprite of the sprites controller has its own key.
SpriteKey(s) == IF s = "A" THEN "player/base" ELSE IF s = "B" THEN "mobs/rat" ELSE "undefined"

\* Sprites that get a hurt sprite / a silhouette sprite when they load.
HasHurtSprite(s) == s \in {"A", "B"}
HasSilhouetteSprite(s) == s \in {"A"}

\* `counter = 0`, counterInterval unassigned.
InitCountdown ==
    /\ counter = 0
    /\ counterInterval = NoTimer
    /\ countdownTimers = {}
    /\ countdownCalls = 0

\* `visible = true`, blinking unassigned.
InitBlink ==
    /\ visible = TRUE
    /\ blinking = NoTimer
    /\ blinkTimers = {}
    /\ blinkCalls = 0
    /\ stopped = FALSE

\* The sprite fields are unassigned, no retry is pending.
InitSpriteFields ==
    /\ sprite = NoSprite
    /\ normalSprite = NoSprite
    /\ hurtSprite = NoSprite
    /\ silhouetteSprite = NoSprite
    /\ retries = [s \in Sprites |-> 0]
    /\ onLoadCallback = {}
    /\ lastSet = NoSprite
    /\ requested = {}
    /\ spriteCalls = 0

\* An entity as constructed, with no sprite loaded or loading.
InitEntity ==
    /\ InitCountdown
    /\ InitBlink
    /\ InitSpriteFields
    /\ spriteState = [s \in Sprites |-> "idle"]

(* ------------------------------ actions -------------------------------- *)
\* The renderer as constructed.
InitCanvas ==
    /\ tiles = EmptyObject
    /\ cells = EmptyObject
    /\ animatedTiles = EmptyObject
    /\ actualTileSize \in ActualTileSizes
    /\ stopRendering = FALSE
    /\ animateTiles = TRUE
    /\ hasOverlay = FALSE
    /\ renderedFrame = FALSE
    /\ camera = 0
    /\ time = 0
    /\ op = "new"
    /\ blits = <<>>
    /\ ctxOps = <<>>
    /\ computed = <<>>
    /\ added = <<>>

Init ==
    /\ InitCanvas
    /\ flipTile = PlainTile(1)
    /\ flipResults = <<>>
    /\ InitEntity

\* A draw() without the frame-cache short-circuit.
DrawNeverReturns == FALSE

\* render(): `if (this.stopRendering) return;`
RenderReturns == stopRendering

\* draw(): `if (this.hasRenderedFrame()) return;`
DrawReturns == renderedFrame

\* A step that draws nothing leaves the per-step records empty.
NothingDrawn ==
    /\ blits' = <<>>
    /\ ctxOps' = <<>>
    /\ computed' = <<>>
    /\ added' = <<>>

\* render() while stopRendering is set: returns at once.
RenderSuppressed ==
    /\ RenderReturns
    /\ op' = "render"
    /\ NothingDrawn
    /\ UNCHANGED << tiles, cells, animatedTiles, actualTileSize, stopRendering,
                    animateTiles, hasOverlay, renderedFrame, camera, time >>
    /\ UNCHANGED << flippedVars, entityVars >>

\* render() whose draw() finds the frame already rendered.
RenderCached ==
    /\ ~RenderReturns
    /\ DrawReturns
    /\ op' = "render"
    /\ NothingDrawn
    /\ UNCHANGED << tiles, cells, animatedTiles, actualTileSize, stopRendering,
                    animateTiles, hasOverlay, renderedFrame, camera, time >>
    /\ UNCHANGED << flippedVars, entityVars >>

\* render() whose draw() draws the frame; saveFrame() may cache it.
RenderDraw ==
    /\ ~RenderReturns
    /\ ~DrawReturns
    /\ \E st \in {Draw} :
           /\ tiles' = st.tiles
           /\ cells' = st.cells
           /\ animatedTiles' = st.animatedTiles
           /\ blits' = st.blits
           /\ ctxOps' = st.ctxOps
           /\ computed' = st.computed
           /\ added' = st.added
           /\ \E saved \in BOOLEAN : renderedFrame' = (saved /\ ~Thrown(st))
    /\ op' = "render"
    /\ UNCHANGED << actualTileSize, stopRendering, animateTiles, hasOverlay,
                    camera, time >>
    /\ UNCHANGED << flippedVars, entityVars >>

\* A resize() that keeps the cached cells.
ResizeCellsKept(cellCache) == cellCache

\* resize(): `this.cells = {};`
ResizeCells(cellCache) == EmptyObject

\* resize(): super.resize() takes the new scale, then the cells are cleared.
Resize ==
    /\ \E size \in ActualTileSizes : actualTileSize' = size
    /\ renderedFrame' = FALSE
    /\ cells' = ResizeCells(cells)
    /\ op' = "resize"
    /\ NothingDrawn
    /\ UNCHANGED << tiles, animatedTiles, stopRendering, animateTiles, hasOverlay,
                    camera, time >>
    /\ UNCHANGED << flippedVars, entityVars >>

\* The camera moves to another part of the map.
MoveCamera ==
    /\ \E row \in CameraRows : row # camera /\ camera' = row
    /\ renderedFrame' = FALSE
    /\ op' = "other"
    /\ NothingDrawn
    /\ UNCHANGED << tiles, cells, animatedTiles, actualTileSize, stopRendering,
                    animateTiles, hasOverlay, time >>
    /\ UNCHANGED << flippedVars, entityVars >>

\* The game clock advances.
Tick ==
    /\ time < MaxTime
    /\ time' = time + 1
    /\ op' = "other"
    /\ NothingDrawn
    /\ UNCHANGED << tiles, cells, animatedTiles, actualTileSize, stopRendering,
                    animateTiles, hasOverlay, renderedFrame, camera >>
    /\ UNCHANGED << flippedVars, entityVars >>

\* The updater steps the animation of one animated tile.
Animate ==
    /\ \E key \in DOMAIN animatedTiles :
          animatedTiles' = [animatedTiles EXCEPT ![key] = TileUpdate(@)]
    /\ op' = "other"
    /\ NothingDrawn
    /\ UNCHANGED << tiles, cells, actualTileSize, stopRendering, animateTiles,
                    hasOverlay, renderedFrame, camera, time >>
    /\ UNCHANGED << flippedVars, entityVars >>

\* An overlay is set or removed.
ToggleOverlay ==
    /\ hasOverlay' = ~hasOverlay
    /\ renderedFrame' = FALSE
    /\ op' = "other"
    /\ NothingDrawn
    /\ UNCHANGED << tiles, cells, animatedTiles, actualTileSize, stopRendering,
                    animateTiles, camera, time >>
    /\ UNCHANGED << flippedVars, entityVars >>

\* Tile animation is switched on or off in the settings.
ToggleAnimateTiles ==
    /\ animateTiles' = ~animateTiles
    /\ renderedFrame' = FALSE
    /\ op' = "other"
    /\ NothingDrawn
    /\ UNCHANGED << tiles, cells, animatedTiles, actualTileSize, stopRendering,
                    hasOverlay, camera, time >>
    /\ UNCHANGED << flippedVars, entityVars >>

\* Rendering is suppressed or resumed.
ToggleStopRendering ==
    /\ stopRendering' = ~stopRendering
    /\ op' = "other"
    /\ NothingDrawn
    /\ UNCHANGED << tiles, cells, animatedTiles, actualTileSize, animateTiles,
                    hasOverlay, renderedFrame, camera, time >>
    /\ UNCHANGED << flippedVars, entityVars >>

Next ==
    \/ RenderSuppressed
    \/ RenderCached
    \/ RenderDraw
    \/ Resize
    \/ MoveCamera
    \/ Tick
    \/ Animate
    \/ ToggleOverlay
    \/ ToggleAnimateTiles
    \/ ToggleStopRendering

Spec == Init /\ [][Next]_vars

(* ------------------- getFlipped called from outside -------------------- *)
\* The tile records another subsystem can pass to the public getFlipped:
\* any tile id, with the Map reporting it flipped or not, and any flags.
FlipInputs ==
    [ tileId : {-1, 1, 5, 9}, flipped : BOOLEAN,
      v : BOOLEAN, d : BOOLEAN, h : BOOLEAN ]

InitFlipped ==
    /\ InitCanvas
    /\ flipTile \in FlipInputs
    /\ flipResults = <<>>
    /\ InitEntity

\* One call of getFlipped(flipTile); it assigns no field of the renderer.
GetFlippedCall ==
    /\ Len(flipResults) < MaxCalls
    /\ flipResults' = Append(flipResults, GetFlipped(flipTile))
    /\ UNCHANGED << canvasVars, flipTile, entityVars >>

NextFlipped == GetFlippedCall

SpecFlipped == InitFlipped /\ [][NextFlipped]_vars

(* ---------------------- class Entity: countdown ------------------------ *)
\* clearInterval(id): the timer with that id, if any, is no longer scheduled.
ClearInterval(timers, id) == timers \ {id}

\* `return this.counter > 0;`
HasCounter == counter > 0

\* setCountdown(count): the id of the interval it creates replaces the one
\* counterInterval held; the interval created before stays scheduled.
SetCountdown(count) ==
    /\ countdownCalls < MaxCountdownCalls
    /\ counter' = count
    /\ counterInterval' = countdownCalls + 1
    /\ countdownTimers' = countdownTimers \cup {countdownCalls + 1}
    /\ countdownCalls' = countdownCalls + 1
    /\ UNCHANGED << canvasVars, flippedVars, blinkVars, spriteVars >>

\* The callback of an interval created by setCountdown fires: it clears the
\* interval counterInterval names, which need not be the one that fired.
CountdownTick(id) ==
    /\ id \in countdownTimers
    /\ IF counter <= 0
       THEN /\ countdownTimers' = ClearInterval(countdownTimers, counterInterval)
            /\ counterInterval' = NoTimer
            /\ UNCHANGED counter
       ELSE /\ counter' = counter - 1
            /\ UNCHANGED << counterInterval, countdownTimers >>
    /\ UNCHANGED << canvasVars, flippedVars, countdownCalls, blinkVars, spriteVars >>

NextCountdown ==
    \/ \E count \in 0 .. MaxCount : SetCountdown(count)
    \/ \E id \in 1 .. MaxCountdownCalls : CountdownTick(id)

\* Every scheduled interval keeps firing.
SpecCountdown ==
    /\ Init
    /\ [][NextCountdown]_vars
    /\ \A id \in 1 .. MaxCountdownCalls : WF_vars(CountdownTick(id))

(* ----------------------- class Entity: blinking ------------------------ *)
\* setVisible(visible): the new value of Entity.visible.
SetVisible(value) == value

\* `return this.visible;`
IsVisible == visible

\* toggleVisibility(): `this.setVisible(!this.visible);`
ToggleVisibility == SetVisible(~visible)

\* blink(speed): the id of the new interval replaces the one blinking held;
\* the interval created before stays scheduled.
Blink ==
    /\ blinkCalls < MaxBlinkCalls
    /\ blinking' = blinkCalls + 1
    /\ blinkTimers' = blinkTimers \cup {blinkCalls + 1}
    /\ blinkCalls' = blinkCalls + 1
    /\ stopped' = FALSE
    /\ UNCHANGED << canvasVars, flippedVars, countdownVars, visible, spriteVars >>

\* stopBlinking(): clears the interval blinking names and shows the entity.
StopBlinking ==
    /\ blinkTimers' = IF blinking # NoTimer THEN ClearInterval(blinkTimers, blinking)
                                            ELSE blinkTimers
    /\ visible' = SetVisible(TRUE)
    /\ stopped' = TRUE
    /\ UNCHANGED << canvasVars, flippedVars, countdownVars, blinking, blinkCalls,
                    spriteVars >>

\* The callback of an interval created by blink() fires.
BlinkTick(id) ==
    /\ id \in blinkTimers
    /\ visible' = ToggleVisibility
    /\ UNCHANGED << canvasVars, flippedVars, countdownVars, blinking, blinkTimers,
                    blinkCalls, stopped, spriteVars >>

NextBlink ==
    \/ Blink
    \/ StopBlinking
    \/ \E id \in 1 .. MaxBlinkCalls : BlinkTick(id)

SpecBlink == Init /\ [][NextBlink]_vars

(* ------------------------ class Entity: sprite ------------------------- *)
\* The states a Sprite is in: neither flag set, Sprite.loading, Sprite.loaded.
SpriteStates == {"idle", "loading", "loaded"}

\* sprite.load(): starts the loading of a sprite that is not loading yet.
SpriteLoad(state, s) ==
    IF state[s] = "idle" THEN [state EXCEPT ![s] = "loading"] ELSE state

\* The sprite fields of the entity and the sprites, as one value.
SpriteFields ==
    [ state |-> spriteState, sprite |-> sprite, normalSprite |-> normalSprite,
      hurtSprite |-> hurtSprite, silhouetteSprite |-> silhouetteSprite,
      retries |-> retries, onLoadCallback |-> onLoadCallback,
      requested |-> requested ]

\* "Load the hurt and silhouette sprites if they exist."
ApplySecondary(e, s) ==
    [e EXCEPT !.hurtSprite = IF HasHurtSprite(s) THEN s ELSE @,
              !.silhouetteSprite = IF HasSilhouetteSprite(s) THEN s ELSE @,
              !.requested = @ \ {s}]

\* setSprite(sprite), from the external caller or from a retry.
SetSprite(e, s) ==
    LET e1 == IF e.state[s] # "loaded"
              THEN [e EXCEPT !.state = SpriteLoad(@, s)]
              ELSE e
    IN  IF e.state[s] # "loaded" /\ SpriteKey(e.sprite) = SpriteKey(s)
        THEN e1
        ELSE LET e2 == [e1 EXCEPT !.sprite = s, !.normalSprite = s]
             IN  IF e2.state[s] = "loading"
                 THEN [e2 EXCEPT !.retries[s] = @ + 1]
                 ELSE [ApplySecondary(e2, s) EXCEPT !.onLoadCallback = @ \cup {s}]

\* The callback setSprite hands to sprite.onLoad.
OnLoad(e, s) == ApplySecondary([e EXCEPT !.normalSprite = s], s)

\* The entity's fields become those of e.
Becomes(e) ==
    /\ spriteState' = e.state
    /\ sprite' = e.sprite
    /\ normalSprite' = e.normalSprite
    /\ hurtSprite' = e.hurtSprite
    /\ silhouetteSprite' = e.silhouetteSprite
    /\ retries' = e.retries
    /\ onLoadCallback' = e.onLoadCallback
    /\ requested' = e.requested

\* Another part of the client calls setSprite(s).
ExternalSetSprite(s) ==
    /\ spriteCalls < MaxSpriteCalls
    /\ spriteCalls' = spriteCalls + 1
    /\ lastSet' = s
    /\ Becomes(SetSprite([SpriteFields EXCEPT
                            !.requested = IF spriteState[s] # "loaded"
                                          THEN @ \cup {s} ELSE @], s))
    /\ UNCHANGED << canvasVars, flippedVars, countdownVars, blinkVars >>

\* A timeout of line 231 fires: `this.setSprite(sprite)`.
RetryFires(s) ==
    /\ retries[s] > 0
    /\ Becomes(SetSprite([SpriteFields EXCEPT !.retries[s] = @ - 1], s))
    /\ UNCHANGED << canvasVars, flippedVars, countdownVars, blinkVars, lastSet,
                    spriteCalls >>

\* The image of a loading sprite arrives: the sprite is loaded and calls
\* the onLoad callback it holds.
LoadComplete(s) ==
    /\ spriteState[s] = "loading"
    /\ LET e == [SpriteFields EXCEPT !.state[s] = "loaded"]
       IN  Becomes(IF s \in onLoadCallback THEN OnLoad(e, s) ELSE e)
    /\ UNCHANGED << canvasVars, flippedVars, countdownVars, blinkVars, lastSet,
                    spriteCalls >>

\* The entity as constructed; the sprites controller may have loaded a
\* sprite already or be loading it.
InitSprite ==
    /\ InitCanvas
    /\ flipTile = PlainTile(1)
    /\ flipResults = <<>>
    /\ InitCountdown
    /\ InitBlink
    /\ InitSpriteFields
    /\ spriteState \in [Sprites -> SpriteStates]

NextSprite ==
    \/ \E s \in Sprites : ExternalSetSprite(s)
    \/ \E s \in Sprites : RetryFires(s)
    \/ \E s \in Sprites : LoadComplete(s)

\* Every pending retry timeout fires.
SpecSprite ==
    /\ InitSprite
    /\ [][NextSprite]_vars
    /\ \A s \in Sprites : WF_vars(RetryFires(s))

(* ============================ properties =============================== *)
Range(seq) == {seq[i] : i \in 1 .. Len(seq)}

\* The last step was a render() whose draw() drew the frame.
DrewFrame == op = "render" /\ ctxOps # <<>>

\* The blits the last step made at a map index.
BlitsAt(index) == {i \in 1 .. Len(blits) : blits[i].index = index}

(* C1: resize() leaves the cell cache empty, every cached cell and every   *)
(* cell handed to a blit is the geometry of its index at the               *)
(* actualTileSize in force, and a cell absent at the start of a pass is    *)
(* computed by the first drawTile that blits its index.                    *)
C1_ResizeInvalidation ==
    [][ /\ (op' = "resize" => cells' = EmptyObject)
        /\ \A k \in DOMAIN cells' : cells'[k] = CellGeometry(k, actualTileSize')
        /\ \A i \in 1 .. Len(blits') :
              /\ blits'[i].cell = CellGeometry(blits'[i].index, actualTileSize')
              /\ (blits'[i].index \notin DOMAIN cells
                    => <<"cell", blits'[i].index>> \in Range(computed')) ]_vars

\* Index 3 holds the only tile with id 4: its tile geometry was cached by an
\* earlier pass, which also cached cell 3, and cell 3 is computed again in
\* this pass: a resize() lay between the two passes.
C1_Witness ==
    /\ DrewFrame
    /\ BlitsAt(3) # {}
    /\ <<"cell", 3>> \in Range(computed)
    /\ <<"tile", 4>> \notin Range(computed)

(* C2: tile geometry is computed at most once per tile id: the compute     *)
(* path runs only for ids absent from the tile cache, at most once per id  *)
(* in a pass, and an entry once stored is never changed or removed, by     *)
(* render() or by resize().                                                *)
C2_TileGeometryOnce ==
    [][ /\ \A id \in DOMAIN tiles :
              /\ id \in DOMAIN tiles'
              /\ tiles'[id] = tiles[id]
              /\ <<"tile", id>> \notin Range(computed')
        /\ \A i, j \in 1 .. Len(computed') :
              (computed'[i][1] = "tile" /\ computed'[i] = computed'[j]) => i = j
        /\ \A id \in DOMAIN tiles' :
              id \notin DOMAIN tiles => <<"tile", id>> \in Range(computed') ]_vars

\* A pass after a resize() that blits a tile from the tile cache (tile 4,
\* whose cell had to be computed again) and one tile id twice.
C2_Witness ==
    /\ C1_Witness
    /\ \E i, j \in 1 .. Len(blits) : i # j /\ blits[i].tileId = blits[j].tileId

\* The synthetic flips the claim expects for the Diagonals of an input list,
\* from position i on.
RECURSIVE Compensation(_, _)
Compensation(flips, i) ==
    IF i > Len(flips) THEN <<>>
    ELSE IF flips[i] # Diagonal THEN Compensation(flips, i + 1)
    ELSE IF i < Len(flips) /\ flips[i + 1] = Horizontal
         THEN <<Horizontal>> \o Compensation(flips, i + 1)
         ELSE <<Vertical>> \o Compensation(flips, i + 1)

(* C3: the effective transform sequence of a blit is its input list with   *)
(* one synthetic flip appended per Diagonal: Horizontal when the Diagonal  *)
(* is followed immediately by a Horizontal, Vertical otherwise.            *)
C3_FlipComposition ==
    \A i \in 1 .. Len(blits) :
        blits[i].flipsOut = blits[i].flipsIn \o Compensation(blits[i].flipsIn, 1)

\* A pass that blits a Diagonal followed by a Horizontal and a lone Diagonal.
C3_Witness ==
    /\ \E i \in 1 .. Len(blits) :
          /\ blits[i].flipsIn = <<Diagonal, Horizontal>>
          /\ blits[i].flipsOut = <<Diagonal, Horizontal, Horizontal>>
    /\ \E i \in 1 .. Len(blits) :
          /\ blits[i].flipsIn = <<Diagonal>>
          /\ blits[i].flipsOut = <<Diagonal, Vertical>>

\* The identifier of the Animated Tile a placement of tileId at index uses.
PlacementKey(tileId, index) ==
    IF DynamicAnimatedTiles(index) THEN TemplateKey(tileId, index)
                                   ELSE NumberKey(tileId)

\* The visible map indices of the frame.
Visible == Range(VisibleIndices(camera))

\* The placement at index is animated and its current frame has a tileset.
FrameResolvable(index) ==
    LET tileId == MapData[index + 1].tileId
        key == PlacementKey(tileId, index)
    IN  /\ IsAnimatedTile(tileId)
        /\ key \in DOMAIN animatedTiles
        /\ animatedTiles[key].id + 1 >= 0
        /\ GetTilesetFromId(animatedTiles[key].id + 1) # NoTileset

(* C4: in a draw() pass with animation enabled, an animated tile id placed *)
(* at two visible indices, one flipped and one not, with a resolvable      *)
(* tileset, is blitted exactly once at each of the two indices.            *)
C4_NoDoubleDraw ==
    (DrewFrame /\ animateTiles) =>
        \A i, j \in Visible :
            ( /\ i # j
              /\ MapData[i + 1].tileId = MapData[j + 1].tileId
              /\ GetFlipped(MapData[i + 1]) # <<>>
              /\ GetFlipped(MapData[j + 1]) = <<>>
              /\ FrameResolvable(i)
              /\ FrameResolvable(j) )
            => /\ Cardinality(BlitsAt(i)) = 1
               /\ Cardinality(BlitsAt(j)) = 1
               /\ \A b \in BlitsAt(i) : blits[b].flipsIn = GetFlipped(MapData[i + 1])
               /\ \A b \in BlitsAt(j) : blits[b].flipsIn = <<>>

\* Tile 5 is at index 4 unflipped and at index 6 flipped: both are blitted.
C4_Witness ==
    /\ DrewFrame
    /\ animateTiles
    /\ FrameResolvable(4)
    /\ FrameResolvable(6)
    /\ Cardinality(BlitsAt(4)) = 1
    /\ Cardinality(BlitsAt(6)) = 1

\* The surface the layer-routing rule gives a tile id.
RoutedSurface(tileId) ==
    IF hasOverlay /\ IsLightTile(tileId) THEN "overlay"
    ELSE IF IsHighTile(tileId) THEN "fore"
    ELSE "back"

(* C5 as stated: every blit, on the direct and on the animated-tile draw   *)
(* path, targets the overlay surface when an overlay is active and the     *)
(* tile is a light tile, else foreground for a high tile, else background. *)
C5_RoutingOnEveryPath ==
    \A i \in 1 .. Len(blits) :
        blits[i].context = RoutedSurface(MapData[blits[i].index + 1].tileId)

(* C5 amended: the routing rule holds for every blit of the direct draw    *)
(* path; a blit of the animated-tile draw path targets foreground or       *)
(* background by the Animated Tile's stored high flag, overlay or not.     *)
C5_LayerRouting ==
    \A i \in 1 .. Len(blits) :
        LET tileId == MapData[blits[i].index + 1].tileId
        IN  /\ blits[i].via = "direct"
                => blits[i].context = RoutedSurface(tileId)
            /\ blits[i].via = "animated"
                => blits[i].context =
                      (IF animatedTiles[PlacementKey(tileId, blits[i].index)].isHighTile
                       THEN "fore" ELSE "back")

\* With an overlay active, one pass blits a high light tile to the overlay
\* on the direct path and an animated light tile to the background.
C5_Witness ==
    /\ hasOverlay
    /\ \E i \in 1 .. Len(blits) :
          /\ blits[i].via = "direct"
          /\ IsHighTile(blits[i].tileId)
          /\ blits[i].context = "overlay"
    /\ \E i \in 1 .. Len(blits) :
          /\ blits[i].via = "animated"
          /\ IsLightTile(MapData[blits[i].index + 1].tileId)
          /\ blits[i].context = "back"

(* C6: right after every addAnimatedTile, every entry of the animated-tile *)
(* collection, old and new, has animationIndex 0.                          *)
C6_FrameSync ==
    \A i \in 1 .. Len(added) :
        \A key \in DOMAIN added[i] : added[i][key].animationIndex = 0

\* An addAnimatedTile that found an older tile advanced to its second frame
\* (id 8 is the frame of animationIndex 1) and left it at animationIndex 0.
C6_Witness ==
    \E i \in 1 .. Len(added) :
        /\ Cardinality(DOMAIN added[i]) >= 2
        /\ \E key \in DOMAIN added[i] :
              added[i][key].id = 8 /\ added[i][key].animationIndex = 0

(* C7: with transforms the blit's destination is exactly the adjusted      *)
(* coordinates of the transform loop, zero included; the cell's own        *)
(* coordinates are used only when there is no transform.                   *)
C7_AdjustedDestination ==
    \A i \in 1 .. Len(blits) :
        IF blits[i].flipsIn # <<>>
        THEN blits[i].destX = blits[i].dx /\ blits[i].destY = blits[i].dy
        ELSE blits[i].destX = blits[i].cell.dx /\ blits[i].destY = blits[i].cell.dy

(* C8: a render() called while stopRendering is set, or whose draw() finds *)
(* the frame already rendered, clears, saves and blits nothing and leaves  *)
(* the tile cache, the cell cache and the animated tiles unchanged.        *)
C8_SkippedFrame ==
    [][ (op' = "render" /\ (stopRendering \/ renderedFrame))
          => /\ ctxOps' = <<>>
             /\ blits' = <<>>
             /\ computed' = <<>>
             /\ UNCHANGED << tiles, cells, animatedTiles >> ]_vars

\* A skipped render() on a renderer whose caches and animated tiles are
\* populated.
C8_Witness ==
    /\ op = "render"
    /\ stopRendering \/ renderedFrame
    /\ ctxOps = <<>>
    /\ DOMAIN tiles # {}
    /\ DOMAIN cells # {}
    /\ DOMAIN animatedTiles # {}

\* The tile id drawTile receives for the visible placement at index.
DrawnTileId(index) ==
    LET tileId == MapData[index + 1].tileId
    IN  IF animateTiles /\ IsAnimatedTile(tileId)
        THEN animatedTiles[PlacementKey(tileId, index)].id + 1
        ELSE tileId

Drawable(tileId) == tileId >= 0 /\ GetTilesetFromId(tileId) # NoTileset

(* C9: drawTile on a negative tile id or on an id without a tileset blits  *)
(* nothing and writes neither cache; the other visible tiles of the frame  *)
(* are still drawn.                                                        *)
C9_SilentNoOp ==
    /\ \A id \in DOMAIN tiles : Drawable(id)
    /\ \A i \in 1 .. Len(blits) : Drawable(blits[i].tileId)
    /\ \A i \in 1 .. Len(computed) :
          computed[i][1] = "tile" => Drawable(computed[i][2])
    /\ DrewFrame =>
          \A k \in Visible :
              IF Drawable(DrawnTileId(k))
              THEN Cardinality(BlitsAt(k)) = 1
              ELSE /\ BlitsAt(k) = {}
                   /\ <<"cell", k>> \notin Range(computed)
    /\ \A k \in MapIndices :
          ~Drawable(MapData[k + 1].tileId) => k \notin DOMAIN cells

\* A pass over the lower half of the map: index 8 holds the empty tile -1,
\* index 9 a tile id without a tileset; the tiles after them are blitted.
C9_Witness ==
    /\ DrewFrame
    /\ {8, 9} \subseteq Visible
    /\ MapData[9].tileId < 0
    /\ GetTilesetFromId(MapData[10].tileId) = NoTileset
    /\ BlitsAt(8) = {} /\ BlitsAt(9) = {}
    /\ BlitsAt(10) # {} /\ BlitsAt(11) # {}

(* C10: render() is idempotent per frame: a second render() right after a  *)
(* render() that drew the frame, with nothing changed in between, leaves   *)
(* the tile cache, the cell cache and the animated tiles as they are.      *)
C10_RenderIdempotent ==
    DrewFrame =>
        \A st \in {Draw} :
            /\ st.tiles = tiles
            /\ st.cells = cells
            /\ st.animatedTiles = animatedTiles

\* A pass that created an Animated Tile, stamped it, recomputed the cell of
\* a flipped placement and filled the tile cache.
C10_Witness ==
    /\ DrewFrame
    /\ added # <<>>
    /\ time > 0
    /\ \E i \in 1 .. Len(blits) : blits[i].flipsIn # <<>>
    /\ \E key \in DOMAIN animatedTiles : animatedTiles[key].lastAccessed = time

\* The flags of a tile in the order Vertical, Diagonal, Horizontal.
FlagOrder == <<Vertical, Diagonal, Horizontal>>

FlagSet(tile, flip) ==
    \/ flip = Vertical /\ tile.v
    \/ flip = Diagonal /\ tile.d
    \/ flip = Horizontal /\ tile.h

\* The list the claim expects of getFlipped: the set flags, in FlagOrder.
ExpectedFlips(tile) ==
    IF ~MapIsFlipped(tile) THEN <<>>
    ELSE LET isSet(flip) == FlagSet(tile, flip)
         IN  SelectSeq(FlagOrder, isSet)

(* C11: getFlipped returns the empty list for a tile the Map reports as    *)
(* not flipped, else Vertical iff v, Diagonal iff d, Horizontal iff h, in  *)
(* that order; every call on the same tile returns the same list and the   *)
(* renderer's state is as it was before the calls.                         *)
C11_GetFlippedPure ==
    /\ \A i \in 1 .. Len(flipResults) : flipResults[i] = ExpectedFlips(flipTile)
    /\ tiles = EmptyObject /\ cells = EmptyObject /\ animatedTiles = EmptyObject
    /\ blits = <<>> /\ ctxOps = <<>> /\ op = "new"

\* Two calls on a tile with all three flags set.
C11_Witness ==
    /\ Len(flipResults) >= 2
    /\ flipTile.flipped /\ flipTile.v /\ flipTile.d /\ flipTile.h
    /\ flipResults[1] = <<Vertical, Diagonal, Horizontal>>
    /\ flipResults[2] = flipResults[1]

(* C12: a drawTile that reaches the blit writes the cell of its map index  *)
(* exactly when the index is absent from the cell cache or the flip list   *)
(* is non-empty; otherwise the cached entry is left as it is and is the    *)
(* cell handed to the blit.                                                *)
C12_CellRefresh ==
    [][ \A i \in 1 .. Len(blits') :
          LET index == blits'[i].index
          IN  /\ <<"cell", index>> \in Range(computed')
                    <=> (index \notin DOMAIN cells \/ blits'[i].flipsIn # <<>>)
              /\ <<"cell", index>> \notin Range(computed')
                    => /\ blits'[i].cell = cells[index]
                       /\ cells'[index] = cells[index] ]_vars

\* A pass over cells cached by an earlier pass (index 0 is reused): the
\* unflipped index 0 is not written, the flipped index 1 is written again.
C12_Witness ==
    /\ DrewFrame
    /\ BlitsAt(0) # {} /\ BlitsAt(1) # {}
    /\ <<"cell", 0>> \notin Range(computed)
    /\ <<"cell", 1>> \in Range(computed)
    /\ \A b \in BlitsAt(1) : blits[b].flipsIn # <<>>

CountDiagonal(flips) == Cardinality({p \in 1 .. Len(flips) : flips[p] = Diagonal})

\* The context call each kind of flip makes.
TransformOf(flip) ==
    IF flip = Horizontal THEN "scale(-1,1)"
    ELSE IF flip = Vertical THEN "scale(1,-1)"
    ELSE "rotate+translate"

\* The coordinates left by mirroring a cell by each flip of a list in turn.
RECURSIVE Mirrored(_, _, _, _, _)
Mirrored(flips, p, dx, dy, cell) ==
    IF p > Len(flips) THEN <<dx, dy>>
    ELSE IF flips[p] = Horizontal
         THEN Mirrored(flips, p + 1, (-dx) - cell.width, dy, cell)
    ELSE IF flips[p] = Vertical
         THEN Mirrored(flips, p + 1, dx, (-dy) - cell.height, cell)
    ELSE Mirrored(flips, p + 1, dy, -cell.dx, cell)

(* C13: the transform loop ends after (input length + number of Diagonals  *)
(* in the input) iterations; no appended flip is a Diagonal, and every     *)
(* flip of the grown list, the appended ones included, has had its context *)
(* call and its coordinate mirror applied before the blit.                 *)
C13_LoopObservesAppended ==
    \A i \in 1 .. Len(blits) :
        LET in == blits[i].flipsIn
            out == blits[i].flipsOut
        IN  /\ blits[i].iterations = Len(in) + CountDiagonal(in)
            /\ Len(out) = blits[i].iterations
            /\ \A p \in (Len(in) + 1) .. Len(out) : out[p] # Diagonal
            /\ blits[i].transforms = [p \in 1 .. Len(out) |-> TransformOf(out[p])]
            /\ in # <<>> =>
                  <<blits[i].dx, blits[i].dy>> =
                      Mirrored(out, 1, blits[i].cell.dx, blits[i].cell.dy, blits[i].cell)

\* A blit of Vertical, Diagonal, Horizontal: four iterations, the fourth on
\* the appended Horizontal.
C13_Witness ==
    \E i \in 1 .. Len(blits) :
        /\ blits[i].flipsIn = <<Vertical, Diagonal, Horizontal>>
        /\ blits[i].iterations = 4
        /\ blits[i].transforms[4] = "scale(-1,1)"

\* The fields of an Animated Tile that make up its identity.
TileIdentity(tile) ==
    << tile.index, tile.animationInfo, tile.isFlipped, tile.isHighTile >>

(* C14: the keys of the animated tiles and of the tile cache only grow, an *)
(* Animated Tile is created at most once per key and keeps its identity,   *)
(* and the keys of the cell cache shrink only in resize().                 *)
C14_StoresNeverShrink ==
    [][ /\ DOMAIN animatedTiles \subseteq DOMAIN animatedTiles'
        /\ DOMAIN tiles \subseteq DOMAIN tiles'
        /\ \A key \in DOMAIN animatedTiles :
              TileIdentity(animatedTiles'[key]) = TileIdentity(animatedTiles[key])
        /\ Len(added') = Cardinality(DOMAIN animatedTiles' \ DOMAIN animatedTiles)
        /\ \A i \in 1 .. Len(added') :
              Cardinality(DOMAIN added'[i] \ DOMAIN animatedTiles) = i
        /\ (~(DOMAIN cells \subseteq DOMAIN cells')) => op' = "resize" ]_vars

\* A pass that created one Animated Tile next to an older one and used the
\* new one for two placements.
C14_Witness ==
    /\ DrewFrame
    /\ Len(added) = 1
    /\ Cardinality(DOMAIN animatedTiles) = 2
    /\ Cardinality({i \in 1 .. Len(blits) : blits[i].via = "animated"}) = 2

\* The map indices that hold an animated tile id.
AnimatedPlacements == {k \in MapIndices : IsAnimatedTile(MapData[k + 1].tileId)}

\* The animated tile ids of the map.
AnimatedTileIds == {MapData[k + 1].tileId : k \in AnimatedPlacements}

\* Tile ids whose plain keys the dynamic keys are compared with.
KeyTileIds == {-1, 5, 9, 12, 51, 512}

(* C15: the key addAnimatedTile registers is the key drawAnimatedTile      *)
(* looks up: the lookup after the creation never fails, non-dynamic        *)
(* placements of a tile id share one Animated Tile (index -1), a dynamic   *)
(* index has its own, and no dynamic key equals a plain tile-id key.       *)
C15_AnimatedIdentity ==
    /\ \A i \in 1 .. Len(computed) : computed[i][1] # "abort"
    /\ (DrewFrame /\ animateTiles) =>
          \A k \in Visible \cap AnimatedPlacements :
              PlacementKey(MapData[k + 1].tileId, k) \in DOMAIN animatedTiles
    /\ DOMAIN animatedTiles \subseteq
          {PlacementKey(MapData[k + 1].tileId, k) : k \in AnimatedPlacements}
    /\ \A k \in AnimatedPlacements :
          LET key == PlacementKey(MapData[k + 1].tileId, k)
          IN  key \in DOMAIN animatedTiles =>
                 animatedTiles[key].index = (IF DynamicAnimatedTiles(k) THEN k ELSE -1)
    /\ \A a \in AnimatedTileIds, k \in MapIndices, b \in KeyTileIds :
          TemplateKey(a, k) # NumberKey(b)

\* The lower half of the map drawn with both Animated Tiles registered: the
\* shared one of tile 5 and the one of the dynamic index 12.
C15_Witness ==
    /\ DrewFrame
    /\ animateTiles
    /\ 12 \in Visible
    /\ {NumberKey(5), TemplateKey(5, 12)} \subseteq DOMAIN animatedTiles
    /\ animatedTiles[NumberKey(5)].index = -1
    /\ animatedTiles[TemplateKey(5, 12)].index = 12
    /\ animatedTiles[TemplateKey(5, 12)].lastAccessed = time

(* C16: every drawImage call of drawTile finds the tile geometry of its    *)
(* tile id in the tile cache and the cell geometry of its map index in the *)
(* cell cache: no call receives a missing geometry.                        *)
C16_PopulateBeforeRead ==
    /\ \A i \in 1 .. Len(ctxOps) : ctxOps[i][1] # "throw"
    /\ Cardinality({i \in 1 .. Len(ctxOps) : ctxOps[i][1] = "drawImage"}) = Len(blits)
    /\ \A i \in 1 .. Len(blits) :
          /\ blits[i].tileId \in DOMAIN tiles
          /\ blits[i].tile = tiles[blits[i].tileId]
          /\ blits[i].index \in DOMAIN cells
          /\ blits[i].cell = cells[blits[i].index]

\* A blit whose tile geometry and cell geometry were both computed by the
\* drawTile call that made it.
C16_Witness ==
    /\ DrewFrame
    /\ \E i \in 1 .. Len(blits) :
          /\ blits[i].flipsIn = <<>>
          /\ <<"tile", blits[i].tileId>> \in Range(computed)
          /\ <<"cell", blits[i].index>> \in Range(computed)

\* The blits of the animated-tile draw path.
AnimatedBlits == {i \in 1 .. Len(blits) : blits[i].via = "animated"}

(* C17: every blit of the animated-tile draw path draws frame id (the      *)
(* Animated Tile's current id + 1) on foreground if the Animated Tile's    *)
(* stored high flag is set and on background otherwise; the stored flag is *)
(* the Map's answer for the tile id the Animated Tile was created for, not *)
(* for the frame drawn, and the overlay surface is never the target.       *)
C17_StoredSurface ==
    \A i \in AnimatedBlits :
        LET tileId == MapData[blits[i].index + 1].tileId
            animatedTile == animatedTiles[PlacementKey(tileId, blits[i].index)]
        IN  /\ blits[i].tileId = animatedTile.id + 1
            /\ animatedTile.isHighTile = IsHighTile(tileId)
            /\ animatedTile.isHighTile => blits[i].context = "fore"
            /\ ~animatedTile.isHighTile => blits[i].context = "back"

\* With an overlay active, frame 6 of the light, low tile 5 is drawn: the
\* Map calls frame 6 a high tile, yet the blit lands on the background.
C17_Witness ==
    /\ DrewFrame
    /\ hasOverlay
    /\ \E i \in AnimatedBlits :
          /\ blits[i].tileId = 6
          /\ IsHighTile(blits[i].tileId)
          /\ IsLightTile(MapData[blits[i].index + 1].tileId)
          /\ ~IsHighTile(MapData[blits[i].index + 1].tileId)
          /\ blits[i].context = "back"

\* The identity keys a pass over the visible tiles looks up.
Encountered ==
    {PlacementKey(MapData[k + 1].tileId, k) : k \in Visible \cap AnimatedPlacements}

(* C18: a draw() pass with animation enabled leaves every Animated Tile    *)
(* whose identity key was looked up for a visible animated tile with       *)
(* lastAccessed equal to the game time, whether or not the tile was        *)
(* blitted; every other Animated Tile existed before the pass and keeps    *)
(* its stamp.                                                              *)
C18_StampBeforeSkip ==
    [][ (op' = "render" /\ ctxOps' # <<>> /\ animateTiles) =>
          \A key \in DOMAIN animatedTiles' :
              IF key \in Encountered
              THEN animatedTiles'[key].lastAccessed = time
              ELSE /\ key \in DOMAIN animatedTiles
                   /\ animatedTiles'[key].lastAccessed = animatedTiles[key].lastAccessed
      ]_vars

\* At time 1 the upper half is drawn: the shared Animated Tile of tile 5 is
\* on frame 9, which no tileset holds, so nothing is blitted at index 4,
\* yet it is stamped; the tile of the dynamic index 12 keeps its stamp.
C18_Witness ==
    /\ DrewFrame
    /\ animateTiles
    /\ time > 0
    /\ 4 \in Visible
    /\ NumberKey(5) \in DOMAIN animatedTiles
    /\ GetTilesetFromId(FrameId(animatedTiles[NumberKey(5)])) = NoTileset
    /\ BlitsAt(4) = {}
    /\ animatedTiles[NumberKey(5)].lastAccessed = time
    /\ TemplateKey(5, 12) \in DOMAIN animatedTiles
    /\ TemplateKey(5, 12) \notin Encountered
    /\ animatedTiles[TemplateKey(5, 12)].lastAccessed < time

\* The positions of the context calls of one kind on one context.
OpsOf(kind, context) ==
    {i \in 1 .. Len(ctxOps) : ctxOps[i] = <<kind, context>>}

\* The saved-state depth of a context after the first n context calls of
\* the pass, relative to its depth when the pass started.
Depth(context, n) ==
    Cardinality({i \in OpsOf("save", context) : i <= n})
    - Cardinality({i \in OpsOf("restore", context) : i <= n})

\* The blits of the pass that applied transforms on a context.
FlippedBlits(context) ==
    {i \in 1 .. Len(blits) : blits[i].context = context /\ blits[i].flipsIn # <<>>}

\* The position among the context calls of the i-th context.drawImage.
DrawImageOp(i) ==
    CHOOSE p \in 1 .. Len(ctxOps) :
        /\ ctxOps[p][1] = "drawImage"
        /\ Cardinality({q \in 1 .. p : ctxOps[q][1] = "drawImage"}) = i

(* C19: in every draw() pass that is not short-circuited, background and   *)
(* foreground are saved once before any tile is drawn and restored once as *)
(* the last call; a blit with transforms is enclosed by one save and one   *)
(* restore of its own context, a blit without transforms adds none; so     *)
(* the saved-state depth of every context, overlay included, never drops   *)
(* below its starting depth and ends at it.                                *)
C19_SaveRestoreBalanced ==
    DrewFrame =>
        /\ \A context \in Contexts :
              /\ \A n \in 0 .. Len(ctxOps) : Depth(context, n) >= 0
              /\ Depth(context, Len(ctxOps)) = 0
              /\ LET outer == IF context \in Range(DrawingContexts) THEN 1 ELSE 0
                 IN  /\ Cardinality(OpsOf("save", context))
                           = outer + Cardinality(FlippedBlits(context))
                     /\ Cardinality(OpsOf("restore", context))
                           = outer + Cardinality(FlippedBlits(context))
        /\ \A context \in Range(DrawingContexts) :
              /\ \E s \in OpsOf("save", context) :
                    \A p \in 1 .. Len(ctxOps) :
                        ctxOps[p][1] \in {"drawImage", "restore"} => s < p
              /\ \E r \in OpsOf("restore", context) :
                    \A p \in 1 .. Len(ctxOps) :
                        ctxOps[p][1] \in {"drawImage", "save"} => p < r
        /\ \A i \in 1 .. Len(blits) :
              LET p == DrawImageOp(i)
              IN  /\ ctxOps[p] = <<"drawImage", blits[i].context>>
                  /\ blits[i].flipsIn # <<>> =>
                        /\ ctxOps[p - 1] = <<"save", blits[i].context>>
                        /\ ctxOps[p + 1] = <<"restore", blits[i].context>>

\* A pass with an overlay that blits a transformed light tile on the
\* overlay surface and an untransformed tile on the background.
C19_Witness ==
    /\ DrewFrame
    /\ hasOverlay
    /\ FlippedBlits("overlay") # {}
    /\ \E i \in 1 .. Len(blits) :
          blits[i].context = "back" /\ blits[i].flipsIn = <<>>
    /\ Depth("overlay", Len(ctxOps)) = 0

(* C20: every blit starts from the transform list getFlipped builds for  *)
(* the tile at its own map index, with no synthetic flip in it, and no map *)
(* index is blitted twice in a pass: the flips drawImage appends for one   *)
(* blit are seen by no other blit of this frame or of a later one.         *)
C20_NoFlipLeak ==
    /\ \A i \in 1 .. Len(blits) :
          /\ blits[i].flipsIn = ExpectedFlips(MapData[blits[i].index + 1])
          /\ Len(blits[i].flipsIn) <= Len(FlagOrder)
          /\ \A j \in 1 .. Len(blits) : blits[j].index = blits[i].index => j = i
    /\ \A index \in MapIndices : Cardinality(BlitsAt(index)) <= 1

\* A blit whose list grew by a synthetic flip, directly followed by the
\* blit of another transformed tile that starts from its own flags only.
C20_Witness ==
    /\ DrewFrame
    /\ \E i \in 1 .. Len(blits) - 1 :
          /\ Len(blits[i].flipsOut) > Len(blits[i].flipsIn)
          /\ blits[i + 1].flipsIn # <<>>
          /\ blits[i + 1].flipsIn # blits[i].flipsOut
          /\ blits[i + 1].flipsIn = GetFlipped(MapData[blits[i + 1].index + 1])

\* The countdown is over and nothing of it is left scheduled.
CountdownSettled ==
    /\ counter = 0
    /\ ~HasCounter
    /\ counterInterval = NoTimer
    /\ countdownTimers = {}

(* C21: whatever setCountdown calls with counts >= 0 were made and however *)
(* the 1-second ticks interleave, the counter is never below 0, and with   *)
(* the intervals firing fairly a started countdown leads to a state with   *)
(* counter 0, counterInterval undefined and no countdown interval left     *)
(* scheduled.                                                              *)
C21_CountdownSettles ==
    /\ [](counter >= 0)
    /\ (countdownTimers # {}) ~> CountdownSettled

(* C22: from the return of stopBlinking() until the next blink() call,   *)
(* isVisible() is true: no interval started by an earlier blink() toggles  *)
(* the visibility after stopBlinking().                                    *)
C22_VisibleAfterStop == stopped => IsVisible

\* No timeout of setSprite is pending.
NoRetryPending == \A s \in Sprites : retries[s] = 0

(* C23: a sprite passed to setSprite before it was loaded has, once it has *)
(* finished loading and with the retry timeouts firing fairly, its hurt    *)
(* and silhouette sprites (those it has) eventually applied to the entity. *)
C23_SecondaryApplied ==
    \A s \in Sprites :
        (s \in requested /\ spriteState[s] = "loaded") ~> (s \notin requested)

(* C24: whenever no retry is pending, sprite and normalSprite are the      *)
(* sprite of the most recent external setSprite call.                      *)
C24_LastCallWins ==
    (NoRetryPending /\ lastSet # NoSprite) =>
        /\ sprite = lastSet
        /\ normalSprite = lastSet

====
